---- MODULE Spec2Model ----
(***************************************************************************)
(* Model of the three Playwright snippets under docs/node-mjs/playwright:  *)
(*   cookie.py  capture cookies, dump them to cookies.json, load them and  *)
(*              add them to a fresh context;                               *)
(*   html.py    server HTML (navigation response) versus client HTML       *)
(*              (DOM after network idle);                                  *)
(*   link.py    collect the hrefs of a page.                               *)
(* Text is a sequence of one-character strings.  "NL" stands for the       *)
(* newline character and "E9" for the non-ASCII character U+00E9.          *)
(* cookie.py and html.py use `async with` at top level, so they are read  *)
(* as run by a host with top-level await (python -m asyncio, a notebook).  *)
(* The browsing engine is outside the repository: its handles, cookie jars *)
(* and page load states are modelled by what the scripts rely on.          *)
(***************************************************************************)
EXTENDS Integers, Sequences, FiniteSets, TLC

----------------------------------------------------------------------------
(* Bounds *)

MaxCookies == 2      \* cookies a server sets / length of a CookieSet input
MaxSaves == 3        \* save operations counted in one run of the store

----------------------------------------------------------------------------
(* Python values that json handles *)

PyStr(cs) == [t |-> "str", v |-> cs]
PyInt(n) == [t |-> "int", v |-> n]
PyFloat(neg, ip, fd) == [t |-> "float", v |-> <<neg, ip, fd>>]
PyBool(b) == [t |-> "bool", v |-> b]
PyNone == [t |-> "none", v |-> 0]
PyList(xs) == [t |-> "list", v |-> xs]
PyDict(kvs) == [t |-> "dict", v |-> kvs]

Digits == <<"0", "1", "2", "3", "4", "5", "6", "7", "8", "9">>

DigitOf(ch) == CHOOSE d \in 0..9 : Digits[d + 1] = ch

IsDigit(ch) == \E d \in 0..9 : Digits[d + 1] = ch

RECURSIVE NatChars(_)
NatChars(n) ==
    IF n < 10 THEN <<Digits[n + 1]>>
    ELSE NatChars(n \div 10) \o <<Digits[(n % 10) + 1]>>

\* int.__repr__
IntChars(n) == IF n < 0 THEN <<"-">> \o NatChars(-n) ELSE NatChars(n)

RECURSIVE DigitChars(_)
DigitChars(ds) ==
    IF ds = <<>> THEN <<>> ELSE <<Digits[Head(ds) + 1]>> \o DigitChars(Tail(ds))

\* float.__repr__ for a finite float in positional notation
FloatChars(f) ==
    (IF f[1] THEN <<"-">> ELSE <<>>) \o NatChars(f[2]) \o <<".">> \o DigitChars(f[3])

\* variant: characters are written as they are, without escaping
EscapeCharRaw(ch) == <<ch>>

\* json.encoder.py_encode_basestring_ascii, one character
EscapeChar(ch) ==
    CASE ch = "\"" -> <<"\\", "\"">>
      [] ch = "\\" -> <<"\\", "\\">>
      [] ch = "NL" -> <<"\\", "n">>
      [] ch = "E9" -> <<"\\", "u", "0", "0", "e", "9">>
      [] OTHER -> <<ch>>

RECURSIVE EscapeAll(_)
EscapeAll(cs) ==
    IF cs = <<>> THEN <<>> ELSE EscapeChar(Head(cs)) \o EscapeAll(Tail(cs))

EncodeStr(cs) == <<"\"">> \o EscapeAll(cs) \o <<"\"">>

\* json.dumps with the default separators (', ', ': ')
RECURSIVE Dumps(_)
RECURSIVE DumpItems(_)
RECURSIVE DumpPairs(_)
DumpItems(xs) ==
    IF xs = <<>> THEN <<>>
    ELSE IF Len(xs) = 1 THEN Dumps(xs[1])
    ELSE Dumps(xs[1]) \o <<",", " ">> \o DumpItems(Tail(xs))

DumpPairs(kvs) ==
    IF kvs = <<>> THEN <<>>
    ELSE LET one == EncodeStr(kvs[1][1]) \o <<":", " ">> \o Dumps(kvs[1][2])
         IN  IF Len(kvs) = 1 THEN one
             ELSE one \o <<",", " ">> \o DumpPairs(Tail(kvs))

Dumps(x) ==
    CASE x.t = "str" -> EncodeStr(x.v)
      [] x.t = "int" -> IntChars(x.v)
      [] x.t = "float" -> FloatChars(x.v)
      [] x.t = "bool" -> IF x.v THEN <<"t", "r", "u", "e">>
                         ELSE <<"f", "a", "l", "s", "e">>
      [] x.t = "none" -> <<"n", "u", "l", "l">>
      [] x.t = "list" -> <<"[">> \o DumpItems(x.v) \o <<"]">>
      [] x.t = "dict" -> <<"{">> \o DumpPairs(x.v) \o <<"}">>

----------------------------------------------------------------------------
(* json.loads: json.decoder / json.scanner *)

WS == {" ", "NL"}

RECURSIVE SkipWs(_, _)
SkipWs(s, i) == IF i <= Len(s) /\ s[i] \in WS THEN SkipWs(s, i + 1) ELSE i

Fail == [ok |-> FALSE, val |-> PyNone, next |-> 0]

Ok(x, n) == [ok |-> TRUE, val |-> x, next |-> n]

HasPrefix(s, i, lit) ==
    /\ i + Len(lit) - 1 <= Len(s)
    /\ SubSeq(s, i, i + Len(lit) - 1) = lit

\* json.decoder.BACKSLASH
Unescape(ch) ==
    CASE ch = "\"" -> "\""
      [] ch = "\\" -> "\\"
      [] ch = "/" -> "/"
      [] ch = "n" -> "NL"

\* json.decoder.py_scanstring (strict); i is the index after the opening quote
RECURSIVE ScanString(_, _, _)
ScanString(s, i, acc) ==
    IF i > Len(s) THEN Fail
    ELSE IF s[i] = "\"" THEN Ok(PyStr(acc), i + 1)
    ELSE IF s[i] = "NL" THEN Fail
    ELSE IF s[i] # "\\" THEN ScanString(s, i + 1, Append(acc, s[i]))
    ELSE IF i + 1 > Len(s) THEN Fail
    ELSE IF s[i + 1] \in {"\"", "\\", "/", "n"}
         THEN ScanString(s, i + 2, Append(acc, Unescape(s[i + 1])))
    ELSE IF s[i + 1] = "u" /\ HasPrefix(s, i + 2, <<"0", "0", "e", "9">>)
         THEN ScanString(s, i + 6, Append(acc, "E9"))
    ELSE Fail

RECURSIVE DigitsEnd(_, _)
DigitsEnd(s, i) == IF i <= Len(s) /\ IsDigit(s[i]) THEN DigitsEnd(s, i + 1) ELSE i

RECURSIVE NatOf(_, _, _)
NatOf(s, i, j) == IF j < i THEN 0 ELSE 10 * NatOf(s, i, j - 1) + DigitOf(s[j])

RECURSIVE StripZeros(_)
StripZeros(ds) ==
    IF Len(ds) > 1 /\ ds[Len(ds)] = 0 THEN StripZeros(SubSeq(ds, 1, Len(ds) - 1))
    ELSE ds

\* json.scanner.NUMBER_RE without the exponent part: -?(0|[1-9]\d*)(\.\d+)?
\* (the literals NaN, Infinity and -Infinity are outside the alphabet drawn)
ScanNumber(s, i) ==
    LET neg == i <= Len(s) /\ s[i] = "-"
        b == IF neg THEN i + 1 ELSE i
        e == IF b <= Len(s) /\ s[b] = "0" THEN b + 1 ELSE DigitsEnd(s, b)
        fe == IF e <= Len(s) /\ s[e] = "." THEN DigitsEnd(s, e + 1) ELSE e
        ip == NatOf(s, b, e - 1)
    IN  IF e = b THEN Fail
        ELSE IF fe > e + 1
             THEN Ok(PyFloat(neg, ip,
                             StripZeros([k \in 1..(fe - e - 1) |-> DigitOf(s[e + k])])),
                     fe)
        ELSE Ok(PyInt(IF neg THEN -ip ELSE ip), e)

\* dict(pairs): a repeated key keeps its first position and its last value
RECURSIVE DictOf(_, _)
DictOf(pairs, acc) ==
    IF pairs = <<>> THEN acc
    ELSE LET p == Head(pairs)
         IN  IF \E k \in 1..Len(acc) : acc[k][1] = p[1]
             THEN DictOf(Tail(pairs),
                         [k \in 1..Len(acc) |-> IF acc[k][1] = p[1] THEN p ELSE acc[k]])
             ELSE DictOf(Tail(pairs), Append(acc, p))

RECURSIVE ScanOnce(_, _)
RECURSIVE JSONArray(_, _, _)
RECURSIVE JSONObject(_, _, _)

\* json.decoder.JSONArray; i is the index of the next value
JSONArray(s, i, acc) ==
    LET r == ScanOnce(s, i)
        j == SkipWs(s, r.next)
    IN  IF ~r.ok THEN Fail
        ELSE IF j > Len(s) THEN Fail
        ELSE IF s[j] = "]" THEN Ok(PyList(Append(acc, r.val)), j + 1)
        ELSE IF s[j] = "," THEN JSONArray(s, SkipWs(s, j + 1), Append(acc, r.val))
        ELSE Fail

\* json.decoder.JSONObject; i is the index of the opening quote of the next key
JSONObject(s, i, acc) ==
    IF i > Len(s) \/ s[i] # "\"" THEN Fail
    ELSE LET k == ScanString(s, i + 1, <<>>)
             c == SkipWs(s, k.next)
         IN  IF ~k.ok THEN Fail
             ELSE IF c > Len(s) \/ s[c] # ":" THEN Fail
             ELSE LET r == ScanOnce(s, SkipWs(s, c + 1))
                      j == SkipWs(s, r.next)
                      more == Append(acc, <<k.val.v, r.val>>)
                  IN  IF ~r.ok THEN Fail
                      ELSE IF j > Len(s) THEN Fail
                      ELSE IF s[j] = "}" THEN Ok(PyDict(DictOf(more, <<>>)), j + 1)
                      ELSE IF s[j] = "," THEN JSONObject(s, SkipWs(s, j + 1), more)
                      ELSE Fail

\* json.scanner.py_make_scanner._scan_once
ScanOnce(s, i) ==
    IF i > Len(s) THEN Fail
    ELSE CASE s[i] = "\"" -> ScanString(s, i + 1, <<>>)
           [] s[i] = "{" ->
                LET j == SkipWs(s, i + 1)
                IN  IF j <= Len(s) /\ s[j] = "}" THEN Ok(PyDict(<<>>), j + 1)
                    ELSE JSONObject(s, j, <<>>)
           [] s[i] = "[" ->
                LET j == SkipWs(s, i + 1)
                IN  IF j <= Len(s) /\ s[j] = "]" THEN Ok(PyList(<<>>), j + 1)
                    ELSE JSONArray(s, j, <<>>)
           [] s[i] = "n" /\ HasPrefix(s, i, <<"n", "u", "l", "l">>) -> Ok(PyNone, i + 4)
           [] s[i] = "t" /\ HasPrefix(s, i, <<"t", "r", "u", "e">>) -> Ok(PyBool(TRUE), i + 4)
           [] s[i] = "f" /\ HasPrefix(s, i, <<"f", "a", "l", "s", "e">>) ->
                Ok(PyBool(FALSE), i + 5)
           [] OTHER -> ScanNumber(s, i)

\* json.loads: JSONDecoder.decode; anything after the value is "Extra data"
Loads(s) ==
    LET r == ScanOnce(s, SkipWs(s, 1))
    IN  IF ~r.ok THEN Fail
        ELSE IF SkipWs(s, r.next) # Len(s) + 1 THEN Fail
        ELSE r

----------------------------------------------------------------------------
(* Cookies as the engine reports them: one dict per cookie *)

KName == <<"n", "a", "m", "e">>
KValue == <<"v", "a", "l", "u", "e">>
KDomain == <<"d", "o", "m", "a", "i", "n">>
KPath == <<"p", "a", "t", "h">>
KExpires == <<"e", "x", "p", "i", "r", "e", "s">>
KHttpOnly == <<"h", "t", "t", "p", "O", "n", "l", "y">>
KSecure == <<"s", "e", "c", "u", "r", "e">>
KSameSite == <<"s", "a", "m", "e", "S", "i", "t", "e">>

Cookie(name, value, domain, path, expires, httpOnly, secure, sameSite) ==
    PyDict(<< <<KName, PyStr(name)>>, <<KValue, PyStr(value)>>,
              <<KDomain, PyStr(domain)>>, <<KPath, PyStr(path)>>,
              <<KExpires, expires>>, <<KHttpOnly, PyBool(httpOnly)>>,
              <<KSecure, PyBool(secure)>>, <<KSameSite, PyStr(sameSite)>> >>)

ExampleCom == <<"e", "x", "a", "m", "p", "l", "e", ".", "c", "o", "m">>

\* sid=abc on example.com, a session cookie
SidAbc ==
    Cookie(<<"s", "i", "d">>, <<"a", "b", "c">>, ExampleCom, <<"/">>,
           PyInt(-1), FALSE, FALSE, <<"L", "a", "x">>)

\* the same (name, domain, path) with another value
SidOther ==
    Cookie(<<"s", "i", "d">>, <<"x", "\"", "\\">>, ExampleCom, <<"/">>,
           PyInt(-1), FALSE, FALSE, <<"L", "a", "x">>)

\* a persistent cookie with a fractional expiry and characters json escapes
Tok ==
    Cookie(<<"t", "E9">>, <<"\\", "n", "NL", " ", "\"">>, <<".">> \o ExampleCom,
           <<"/", "a">>, PyFloat(FALSE, 1700, <<2, 5>>), TRUE, TRUE,
           <<"N", "o", "n", "e">>)

CookiePool == {SidAbc, SidOther, Tok}

SeqsUpTo(S, n) == UNION {[1..k -> S] : k \in 0..n}

\* the Set-Cookie headers one response may carry, in order
ServerCookies == SeqsUpTo(CookiePool, MaxCookies)

HasField(c, k) == \E i \in 1..Len(c.v) : c.v[i][1] = k

Field(c, k) == c.v[CHOOSE i \in 1..Len(c.v) : c.v[i][1] = k][2]

\* the identity of a cookie in a jar
Key(c) == <<Field(c, KName), Field(c, KDomain), Field(c, KPath)>>

\* the engine stores one cookie: the same (name, domain, path) is overwritten
SetCookie(j, c) == Append(SelectSeq(j, LAMBDA o : Key(o) # Key(c)), c)

RECURSIVE AddCookies(_, _)
AddCookies(j, cs) ==
    IF cs = <<>> THEN j ELSE AddCookies(SetCookie(j, Head(cs)), Tail(cs))

\* the argument check of BrowserContext.add_cookies
IsCookie(x) ==
    /\ x.t = "dict"
    /\ \A k \in {KName, KValue, KDomain, KPath} : HasField(x, k) /\ Field(x, k).t = "str"

IsCookieList(x) == x.t = "list" /\ \A i \in 1..Len(x.v) : IsCookie(x.v[i])

----------------------------------------------------------------------------
(* Files *)

Missing == [exists |-> FALSE, data |-> <<>>]

FileOf(cs) == [exists |-> TRUE, data |-> cs]

\* variant: open(path, 'a') keeps the content
OpenForAppend(old) == old

\* open(path, 'w'): the content present at open time that the handle keeps
OpenForWrite(old) == <<>>

\* variant: the new cookies are merged into the list the file already holds
WrittenMerged(old, S) ==
    LET r == Loads(old)
    IN  IF r.ok /\ r.val.t = "list" THEN FileOf(Dumps(PyList(r.val.v \o S.v)))
        ELSE FileOf(Dumps(S))

\* what the file holds after `with open(path, 'w') as f: json.dump(S, f)`
Written(old, S) == FileOf(OpenForWrite(old) \o Dumps(S))

\* `with open(path, 'r') as f: json.load(f)`
LoadFile(fs) ==
    IF ~fs.exists THEN [err |-> "IOError", val |-> PyNone]
    ELSE LET r == Loads(fs.data)
         IN  IF r.ok THEN [err |-> "none", val |-> r.val]
             ELSE [err |-> "FormatError", val |-> PyNone]

\* contents cookies.json may have when a run starts
FileInputs ==
    { Missing,
      FileOf(<<"n", "o", "t", " ", "j", "s", "o", "n">>),
      FileOf(<<>>),
      FileOf(<<"{", "}">>),
      FileOf(<<"[", "1", ",", " ", "2", "]">>),
      FileOf(<<"[", "]", " ", "x">>),
      FileOf(<<"[", "]">>),
      FileOf(Dumps(PyList(<<SidAbc>>))),
      FileOf(Dumps(PyList(<<Tok, SidOther>>))) }

----------------------------------------------------------------------------
(* Pages *)

\* documents a server may answer with; anchors are the href values of its <a>
Bodies ==
    { [id |-> "b1", anchors |-> <<"u1", "">>],
      [id |-> "b2", anchors |-> <<>>] }

NoDoc == [id |-> "unset", anchors |-> <<>>]

\* a client script rewrites the document once
Render(d) == [id |-> "r" \o d.id, anchors |-> Append(d.anchors, "u2")]

\* page.content(): the serialised DOM;  response.text(): the response body
HtmlOf(d) == d.id

\* Array.from(document.querySelectorAll('a')).map(a => a.href).filter(Boolean)
Hrefs(d) == SelectSeq(d.anchors, LAMBDA u : u # "")

LoadRank(st) ==
    CASE st = "none" -> 0
      [] st = "requested" -> 1
      [] st = "domcontentloaded" -> 2
      [] st = "load" -> 3
      [] st = "networkidle" -> 4

----------------------------------------------------------------------------
(* The scripts, statement by statement (label = file letter + line number) *)

\* variant: add_cookies is issued before the file is read back
CookieLinesEager ==
    <<"c4", "c5", "c6", "c7", "c9", "c10", "c11", "c14", "c15", "c18", "c21",
      "c19", "c20", "c23", "c24", "c26">>

CookieLines ==
    <<"c4", "c5", "c6", "c7", "c9", "c10", "c11", "c14", "c15", "c18", "c19",
      "c20", "c21", "c23", "c24", "c26">>

\* variant: page.content() is read before waiting for network idle
HtmlLinesNoWait ==
    <<"h3", "h4", "h5", "h6", "h8", "h9", "h10", "h13", "h12", "h14", "h16">>

HtmlLines == <<"h3", "h4", "h5", "h6", "h8", "h9", "h10", "h12", "h13", "h14", "h16">>

LinkLines == <<"k4", "k5", "k6", "k7", "k9", "k14", "k15">>

Program(sc) ==
    CASE sc = "cookie" -> CookieLines
      [] sc = "html" -> HtmlLines
      [] sc = "link" -> LinkLines

\* statements that hand an operation to the browsing engine and wait for it
EngineLines ==
    {"c5", "c6", "c7", "c9", "c10", "c18", "c21", "c23", "c24", "c26",
     "h4", "h5", "h6", "h8", "h9", "h12", "h13", "h16",
     "k5", "k6", "k7", "k9", "k14"}

GotoLines == {"c9", "c24", "h8", "k7"}

\* the context whose page a goto statement navigates
GotoContext(l) == IF l = "c24" THEN "new_context" ELSE "context"

\* the load state a goto statement waits for (wait_until, default "load")
WaitUntil(l) == IF l = "h8" THEN "domcontentloaded" ELSE "load"

Unset == [t |-> "unset", v |-> 0]

NoErr == [kind |-> "none", at |-> "none"]

VARIABLES
    script,       \* which snippet runs
    pc,           \* the statement to run next, "exit" (leaving the with block), "end"
    inflight,     \* engine operations handed over and not yet settled
    att,          \* statements started, in order (history)
    done,         \* statements completed, in order (history)
    err,          \* the exception that left the script, if any
    pw,           \* the Playwright driver: "none", "running", "stopped"
    h,            \* the engine handles the script holds
    jar,          \* the cookies of each context
    nav,          \* the context whose page is navigating or has navigated last
    loadState,    \* load state of that page
    body,         \* the response body of that navigation
    dom,          \* the document of that page
    cookies, saved, resp, server_html, client_html, hrefs,   \* script variables
    stdout,       \* the statements that have printed
    file,         \* cookies.json
    file0,        \* cookies.json before the run (history)
    writable,     \* whether cookies.json can be opened for writing
    f,            \* the open file object: "none", "w", "r", "closed"
    lastSaved, resaved, rewrote, nSaves, lastOp   \* history of save and load

ctl == <<script, pc, inflight, att, done, err>>
eng == <<pw, h, jar, nav, loadState, body, dom>>
loc == <<cookies, saved, resp, server_html, client_html, hrefs, stdout>>
fsv == <<file, file0, writable, f>>
hist == <<lastSaved, resaved, rewrote, nSaves, lastOp>>
vars == <<ctl, eng, loc, fsv, hist>>

NoHandles ==
    [browser |-> "none", context |-> "none", page |-> "none",
     new_context |-> "none", new_page |-> "none"]

\* closing the browser closes every context and page that belongs to it
CloseAll(hs) == [x \in DOMAIN hs |-> IF hs[x] = "open" THEN "closed" ELSE hs[x]]

Quiet ==
    /\ inflight = {} /\ att = <<>> /\ done = <<>> /\ err = NoErr
    /\ pw = "none" /\ h = NoHandles
    /\ jar = [context |-> <<>>, new_context |-> <<>>]
    /\ nav = "none" /\ loadState = "none" /\ body = NoDoc /\ dom = NoDoc
    /\ cookies = Unset /\ saved = Unset /\ resp = NoDoc
    /\ server_html = "unset" /\ client_html = "unset" /\ hrefs = Unset
    /\ stdout = <<>> /\ f = "none"
    /\ lastSaved = Unset /\ resaved = FALSE /\ rewrote = FALSE /\ nSaves = 0 /\ lastOp = "none"

\* a run of one of the three scripts
Init ==
    /\ script \in {"cookie", "html", "link"}
    /\ pc = Program(script)[1]
    /\ file \in {Missing, FileOf(Dumps(PyList(<<SidOther>>)))}
    /\ file0 = file
    /\ writable \in BOOLEAN
    /\ Quiet

\* the statement after l in program order
NextLine(l) ==
    LET prog == Program(script)
        i == CHOOSE k \in 1..Len(prog) : prog[k] = l
    IN  IF i = Len(prog) THEN "exit" ELSE prog[i + 1]

\* variant: the exception is swallowed and the script goes on
OnErrorSwallow(l) == NextLine(l)

\* where control goes when statement l raises: no statement is inside a
\* try block, so the exception leaves the with block
OnError(l) == "exit"

\* an awaited engine operation settles and the statement completes
RetOk(l) ==
    /\ pc = l /\ l \in inflight
    /\ inflight' = inflight \ {l}
    /\ pc' = NextLine(l)
    /\ done' = Append(done, l)
    /\ UNCHANGED <<script, att, err>>

\* a statement that runs without the engine completes
LocalOk(l) ==
    /\ pc = l /\ inflight = {}
    /\ pc' = NextLine(l)
    /\ att' = Append(att, l)
    /\ done' = Append(done, l)
    /\ UNCHANGED <<script, inflight, err>>

Raise(l, e) ==
    /\ pc = l
    /\ pc' = OnError(l)
    /\ err' = [kind |-> e, at |-> l]
    /\ inflight' = inflight \ {l}
    /\ att' = IF l \in EngineLines THEN att ELSE Append(att, l)
    /\ UNCHANGED <<script, done>>

----------------------------------------------------------------------------
(* Statements of the scripts *)

\* `with sync_playwright() as p` / `async with async_playwright() as pw`:
\* entering starts the driver; if that fails the block is never entered
PwEnter ==
    /\ pc \in {"c4", "h3", "k4"}
    /\ \/ LocalOk(pc) /\ pw' = "running"
       \/ /\ pc' = "end"
          /\ err' = [kind |-> "EngineUnavailable", at |-> pc]
          /\ att' = Append(att, pc)
          /\ UNCHANGED <<script, inflight, done, pw>>
    /\ UNCHANGED <<h, jar, nav, loadState, body, dom, loc, fsv, hist>>

\* the statement hands its operation to the engine (the call before `await`
\* suspends, or the blocking call of the sync API is entered)
Call ==
    /\ pc \in EngineLines
    /\ inflight = {}
    /\ inflight' = inflight \cup {pc}
    /\ att' = Append(att, pc)
    /\ IF pc \in GotoLines
       THEN /\ nav' = GotoContext(pc)
            /\ loadState' = "requested"
            /\ body' = NoDoc
            /\ dom' = NoDoc
       ELSE UNCHANGED <<nav, loadState, body, dom>>
    /\ UNCHANGED <<script, pc, done, err, pw, h, jar, loc, fsv, hist>>

\* the engine operation fails (context closed, connection lost, timeout)
EngineFail ==
    /\ pc \in inflight
    /\ Raise(pc, "EngineUnavailable")
    /\ UNCHANGED <<eng, loc, fsv, hist>>

\* browser = p.chromium.launch()
Launch ==
    /\ \E l \in {"c5", "h4", "k5"} : RetOk(l)
    /\ h' = [h EXCEPT !.browser = "open"]
    /\ UNCHANGED <<pw, jar, nav, loadState, body, dom, loc, fsv, hist>>

\* context = browser.new_context()
NewContext ==
    /\ \E l \in {"c6", "h5"} : RetOk(l)
    /\ h' = [h EXCEPT !.context = "open"]
    /\ jar' = [jar EXCEPT !.context = <<>>]
    /\ UNCHANGED <<pw, nav, loadState, body, dom, loc, fsv, hist>>

\* page = context.new_page();  link.py: page = browser.new_page(), which
\* creates the page in a context of its own
NewPage ==
    /\ \E l \in {"c7", "h6", "k6"} : RetOk(l)
    /\ h' = [h EXCEPT !.context = "open", !.page = "open"]
    /\ jar' = IF pc = "k6" THEN [jar EXCEPT !.context = <<>>] ELSE jar
    /\ UNCHANGED <<pw, nav, loadState, body, dom, loc, fsv, hist>>

\* the response of the navigation arrives: its Set-Cookie headers go to the
\* jar of the page's context and its body becomes the document
PageLoad ==
    /\ h.browser = "open"
    /\ loadState = "requested"
    /\ \E b \in Bodies, cs \in ServerCookies :
          /\ body' = b
          /\ dom' = b
          /\ jar' = [jar EXCEPT ![nav] = AddCookies(@, cs)]
    /\ loadState' = "domcontentloaded"
    /\ UNCHANGED <<ctl, pw, h, nav, loc, fsv, hist>>

\* the page fires load, then the network goes idle
PageProgress ==
    /\ h.browser = "open"
    /\ loadState \in {"domcontentloaded", "load"}
    /\ loadState' = IF loadState = "domcontentloaded" THEN "load" ELSE "networkidle"
    /\ UNCHANGED <<ctl, pw, h, jar, nav, body, dom, loc, fsv, hist>>

\* a script of the page rewrites the document
ClientRender ==
    /\ h.browser = "open"
    /\ LoadRank(loadState) >= LoadRank("domcontentloaded")
    /\ dom = body
    /\ dom' = Render(dom)
    /\ UNCHANGED <<ctl, pw, h, jar, nav, loadState, body, loc, fsv, hist>>

\* page.goto(url) returns once the page has reached the awaited load state
GotoRet ==
    /\ \E l \in GotoLines : RetOk(l)
    /\ LoadRank(loadState) >= LoadRank(WaitUntil(pc))
    /\ resp' = IF pc = "h8" THEN body ELSE resp
    /\ UNCHANGED <<eng, cookies, saved, server_html, client_html, hrefs, stdout,
                   fsv, hist>>

\* context.cookies(): the cookie list the engine reports for a context
CaptureOf(ctx) == PyList(jar[ctx])

\* cookies = await context.cookies()
Capture ==
    /\ RetOk("c10")
    /\ cookies' = CaptureOf("context")
    /\ UNCHANGED <<eng, saved, resp, server_html, client_html, hrefs, stdout,
                   fsv, hist>>

\* print(...)
Say ==
    /\ \E l \in {"c11", "h10", "h14"} : LocalOk(l)
    /\ stdout' = Append(stdout, pc)
    /\ UNCHANGED <<eng, cookies, saved, resp, server_html, client_html, hrefs,
                   fsv, hist>>

\* with open('cookies.json', 'w') as f:
OpenW ==
    /\ pc = "c14" /\ inflight = {}
    /\ IF writable
       THEN /\ LocalOk("c14")
            /\ file' = FileOf(OpenForWrite(file.data))
            /\ f' = "w"
       ELSE /\ Raise("c14", "IOError")
            /\ UNCHANGED <<file, f>>
    /\ UNCHANGED <<eng, loc, file0, writable, hist>>

\* json.dump(cookies, f), and f is closed on leaving the with block
JsonDump ==
    /\ LocalOk("c15")
    /\ file' = FileOf(file.data \o Dumps(cookies))
    /\ f' = "closed"
    /\ UNCHANGED <<eng, loc, file0, writable, hist>>

\* new_context = await browser.new_context()
NewContext2 ==
    /\ RetOk("c18")
    /\ h' = [h EXCEPT !.new_context = "open"]
    /\ jar' = [jar EXCEPT !.new_context = <<>>]
    /\ UNCHANGED <<pw, nav, loadState, body, dom, loc, fsv, hist>>

\* variant: the file is opened in a mode that creates it when it is missing
OpenRCreate ==
    /\ LocalOk("c19")
    /\ f' = "r"
    /\ file' = IF file.exists THEN file ELSE FileOf(<<>>)
    /\ UNCHANGED <<eng, loc, file0, writable, hist>>

\* with open('cookies.json', 'r') as f:
OpenR ==
    /\ pc = "c19" /\ inflight = {}
    /\ IF file.exists
       THEN LocalOk("c19") /\ f' = "r"
       ELSE Raise("c19", "IOError") /\ f' = f
    /\ UNCHANGED <<eng, loc, file, file0, writable, hist>>

\* saved = json.load(f), and f is closed on leaving the with block
JsonLoad ==
    /\ pc = "c20" /\ inflight = {}
    /\ LET r == LoadFile(file)
       IN  IF r.err = "none"
           THEN LocalOk("c20") /\ saved' = r.val
           ELSE Raise("c20", r.err) /\ saved' = saved
    /\ f' = "closed"
    /\ UNCHANGED <<eng, cookies, resp, server_html, client_html, hrefs, stdout,
                   file, file0, writable, hist>>

\* variant: the cookies are added to the first context
AddCookiesRetOld ==
    /\ pc = "c21" /\ "c21" \in inflight
    /\ IF IsCookieList(saved)
       THEN /\ RetOk("c21")
            /\ jar' = [jar EXCEPT !.context = AddCookies(@, saved.v)]
       ELSE /\ Raise("c21", "EngineError")
            /\ jar' = jar
    /\ UNCHANGED <<pw, h, nav, loadState, body, dom, loc, fsv, hist>>

\* await new_context.add_cookies(saved)
AddCookiesRet ==
    /\ pc = "c21" /\ "c21" \in inflight
    /\ IF IsCookieList(saved)
       THEN /\ RetOk("c21")
            /\ jar' = [jar EXCEPT !.new_context = AddCookies(@, saved.v)]
       ELSE /\ Raise("c21", "EngineError")
            /\ jar' = jar
    /\ UNCHANGED <<pw, h, nav, loadState, body, dom, loc, fsv, hist>>

\* new_page = await new_context.new_page()
NewPage2 ==
    /\ RetOk("c23")
    /\ h' = [h EXCEPT !.new_page = "open"]
    /\ UNCHANGED <<pw, jar, nav, loadState, body, dom, loc, fsv, hist>>

\* server_html = await resp.text()
RespText ==
    /\ RetOk("h9")
    /\ server_html' = HtmlOf(resp)
    /\ UNCHANGED <<eng, cookies, saved, resp, client_html, hrefs, stdout, fsv, hist>>

\* await page.wait_for_load_state("networkidle")
WaitForLoadState ==
    /\ RetOk("h12")
    /\ loadState = "networkidle"
    /\ UNCHANGED <<eng, loc, fsv, hist>>

\* client_html = await page.content()
Content ==
    /\ RetOk("h13")
    /\ client_html' = HtmlOf(dom)
    /\ UNCHANGED <<eng, cookies, saved, resp, server_html, hrefs, stdout, fsv, hist>>

\* hrefs = page.evaluate(...)
Evaluate ==
    /\ RetOk("k9")
    /\ hrefs' = PyList(Hrefs(dom))
    /\ UNCHANGED <<eng, cookies, saved, resp, server_html, client_html, stdout,
                   fsv, hist>>

\* browser.close()
Close ==
    /\ \E l \in {"c26", "h16", "k14"} : RetOk(l)
    /\ h' = CloseAll(h)
    /\ UNCHANGED <<pw, jar, nav, loadState, body, dom, loc, fsv, hist>>

\* return hrefs
Return ==
    /\ LocalOk("k15")
    /\ UNCHANGED <<eng, loc, fsv, hist>>

\* variant: the driver is left running with its browsers
StopDriverLeak(hs) == hs

\* what stopping the driver does to the handles: the driver closes every
\* browser it launched before it exits
StopDriver(hs) == CloseAll(hs)

\* leaving the with block, normally or with an exception: the context
\* manager stops the driver
PwExit ==
    /\ pc = "exit"
    /\ pw' = "stopped"
    /\ h' = StopDriver(h)
    /\ pc' = IF script = "link" /\ err = NoErr THEN "k19" ELSE "end"
    /\ UNCHANGED <<script, inflight, att, done, err, jar, nav, loadState, body,
                   dom, loc, fsv, hist>>

\* link.py line 19: print("Collected links:", links)
SayLinks ==
    /\ pc = "k19"
    /\ pc' = "end"
    /\ att' = Append(att, "k19")
    /\ done' = Append(done, "k19")
    /\ stdout' = Append(stdout, "k19")
    /\ UNCHANGED <<script, inflight, err, eng, cookies, saved, resp, server_html,
                   client_html, hrefs, fsv, hist>>

Next ==
    \/ PwEnter \/ Call \/ EngineFail \/ Launch \/ NewContext \/ NewPage
    \/ PageLoad \/ PageProgress \/ ClientRender \/ GotoRet
    \/ Capture \/ Say \/ OpenW \/ JsonDump
    \/ NewContext2 \/ OpenR \/ JsonLoad \/ AddCookiesRet \/ NewPage2
    \/ RespText \/ WaitForLoadState \/ Content \/ Evaluate
    \/ Close \/ Return \/ PwExit \/ SayLinks

Spec == Init /\ [][Next]_vars

----------------------------------------------------------------------------
(* The second half of cookie.py ("To reuse in a fresh context", lines 17-26)
   run against whatever cookies.json holds at that point *)

InitLoad ==
    /\ script = "cookie"
    /\ pc = "c18"
    /\ inflight = {}
    /\ att = SubSeq(CookieLines, 1, 9)
    /\ done = att
    /\ err = NoErr
    /\ pw = "running"
    /\ h = [NoHandles EXCEPT !.browser = "open", !.context = "open", !.page = "open"]
    /\ \E cs \in ServerCookies :
          jar = [context |-> AddCookies(<<>>, cs), new_context |-> <<>>]
    /\ cookies = PyList(jar.context)
    /\ nav = "context" /\ loadState = "load"
    /\ body \in Bodies /\ dom = body
    /\ saved = Unset /\ resp = NoDoc /\ hrefs = Unset
    /\ server_html = "unset" /\ client_html = "unset"
    /\ stdout = <<"c11">>
    /\ file \in FileInputs
    /\ file0 = file
    /\ writable = TRUE
    /\ f = "closed"
    /\ lastSaved = Unset /\ resaved = FALSE /\ rewrote = FALSE
    /\ nSaves = 0 /\ lastOp = "none"

NextLoad ==
    \/ Call \/ EngineFail \/ NewContext2 \/ OpenR \/ JsonLoad \/ AddCookiesRet
    \/ NewPage2 \/ PageLoad \/ PageProgress \/ ClientRender \/ GotoRet
    \/ Close \/ PwExit

SpecLoad == InitLoad /\ [][NextLoad]_vars

----------------------------------------------------------------------------
(* save and load as operations on one path, applied in any order to any
   CookieSet: lines 14-15 and 19-20 of cookie.py *)

\* the CookieSets handed to save: any order, repetitions included
CookieSets == SeqsUpTo({SidOther, Tok}, MaxCookies)

InitStore ==
    /\ script = "store"
    /\ pc = "store"
    /\ file \in {Missing, FileOf(Dumps(PyList(<<SidAbc>>)))}
    /\ file0 = file
    /\ writable \in BOOLEAN
    /\ Quiet

\* with open(path, 'w') as f: json.dump(S, f)
Save(S) ==
    /\ pc = "store"
    /\ nSaves < MaxSaves
    /\ lastOp' = "save"
    /\ IF writable
       THEN /\ file' = Written(file.data, PyList(S))
            /\ err' = NoErr
            /\ resaved' = (lastSaved = PyList(S))
            /\ rewrote' = (file' # file)
            /\ lastSaved' = PyList(S)
            /\ nSaves' = nSaves + 1
       ELSE /\ err' = [kind |-> "IOError", at |-> "save"]
            /\ UNCHANGED <<file, resaved, rewrote, lastSaved, nSaves>>
    /\ UNCHANGED <<script, pc, inflight, att, done, eng, loc, file0, writable, f>>

\* with open(path, 'r') as f: saved = json.load(f)
Load ==
    /\ pc = "store"
    /\ lastOp' = "load"
    /\ LET r == LoadFile(file)
       IN  /\ err' = IF r.err = "none" THEN NoErr ELSE [kind |-> r.err, at |-> "load"]
           /\ saved' = IF r.err = "none" THEN r.val ELSE Unset
    /\ UNCHANGED <<script, pc, inflight, att, done, eng, cookies, resp, server_html,
                   client_html, hrefs, stdout, fsv, lastSaved, resaved, rewrote,
                   nSaves>>

NextStore == (\E S \in CookieSets : Save(S)) \/ Load

SpecStore == InitStore /\ [][NextStore]_vars

----------------------------------------------------------------------------
(* Properties *)

Range(sq) == {sq[i] : i \in DOMAIN sq}

\* C1: round trip.  Whenever a load follows a successful save of a CookieSet
\* S on the same path, the load succeeds and returns a value equal to S:
\* the same cookies, in the same order, every field with its name, value
\* and type.
C1_RoundTrip ==
    (lastOp = "load" /\ lastSaved # Unset) => (err = NoErr /\ saved = lastSaved)

C1_Witness ==
    /\ lastOp = "load"
    /\ lastSaved = PyList(<<Tok, SidOther>>)
    /\ saved = lastSaved

\* C2: restore correctness.  Once add_cookies(saved) has completed on the new
\* context (and before that context navigates), a capture of the new context
\* contains every cookie of saved, except one that a later cookie of saved
\* with the same (name, domain, path) has overwritten; and if the captured
\* cookies held sid=abc, the capture of the new context holds sid=abc.
C2_RestoreCorrect ==
    ("c21" \in Range(done) /\ "c24" \notin Range(att)) =>
        /\ \A i \in 1..Len(saved.v) :
              \/ saved.v[i] \in Range(CaptureOf("new_context").v)
              \/ \E j \in (i + 1)..Len(saved.v) : Key(saved.v[j]) = Key(saved.v[i])
        /\ SidAbc \in Range(cookies.v) => SidAbc \in Range(CaptureOf("new_context").v)

C2_Witness ==
    /\ "c21" \in Range(done) /\ "c24" \notin Range(att)
    /\ cookies = PyList(<<SidAbc>>)
    /\ CaptureOf("new_context") = PyList(<<SidAbc>>)

\* C3: after one or more successful saves on the path, the file holds exactly
\* one CookieSet, the one passed to the most recent save, and nothing else.
C3_LastSaveOnly ==
    nSaves > 0 =>
        /\ file.exists
        /\ Loads(file.data).ok
        /\ Loads(file.data).val = lastSaved

C3_Witness ==
    /\ nSaves >= 2
    /\ ~resaved
    /\ file0.exists
    /\ lastSaved = PyList(<<Tok>>)

\* C4: when the file is missing, opening it for reading raises IOError: no
\* file is created, no value is loaded, add_cookies is never started and the new context gets no
\* cookie.
C4_MissingFileFails ==
    ("c19" \in Range(att) /\ ~file0.exists) =>
        /\ err = [kind |-> "IOError", at |-> "c19"]
        /\ ~file.exists
        /\ saved = Unset
        /\ "c20" \notin Range(att)
        /\ "c21" \notin Range(att)
        /\ jar.new_context = <<>>

C4_Witness ==
    /\ pc = "end"
    /\ ~file.exists
    /\ err = [kind |-> "IOError", at |-> "c19"]
    /\ h.new_context = "closed"

\* the file content parses into a sequence of cookie records
HoldsCookieSet(fs) == Loads(fs.data).ok /\ IsCookieList(Loads(fs.data).val)

C6_FailurePropagates ==
    /\ \A i, j \in DOMAIN att : att[i] = att[j] => i = j
    /\ err # NoErr =>
          /\ pc \in {"exit", "end"}
          /\ inflight = {}
          /\ att = Append(done, err.at)
          /\ done = SubSeq(Program(script), 1, Len(done))
          /\ err.at \in {"c4", "c5", "c6", "c7", "c9", "c10", "c11", "c14"}
                => file = file0
          /\ "c21" \notin Range(done) => jar.new_context = <<>>

C6_Witness ==
    /\ pc = "end"
    /\ err = [kind |-> "EngineUnavailable", at |-> "c10"]
    /\ file = file0
    /\ jar.context # <<>>

\* C7: strict sequence in the cookie script.  At most one engine operation
\* is in flight, and of capture (c10), save (c15), new context (c18), load
\* (c20), restore (c21) and the navigation of the new page (c24) none is
\* started before the one before it has completed.
C7_Sequential ==
    /\ Cardinality(inflight) <= 1
    /\ \A k \in 1..5 :
          LET steps == <<"c10", "c15", "c18", "c20", "c21", "c24">>
          IN  steps[k + 1] \in Range(att) => steps[k] \in Range(done)

C7_Witness ==
    /\ script = "cookie"
    /\ pc = "end"
    /\ err = NoErr
    /\ "c24" \in Range(done)
    /\ saved = cookies

\* C9: in the HTML script the response is obtained once the page has reached
\* DOM-content-loaded, server_html is the body of that response, page.content()
\* is started only after the wait for network idle has completed, client_html
\* is read with the page at network idle from the document and leaves
\* server_html as it was.
C9_ServerThenClient ==
    /\ "h8" \in Range(done) =>
          /\ LoadRank(loadState) >= LoadRank("domcontentloaded")
          /\ resp = body
    /\ "h9" \in Range(done) => server_html = HtmlOf(body)
    /\ "h13" \in Range(att) => ("h12" \in Range(done) /\ loadState = "networkidle")
    /\ "h13" \in Range(done) =>
          /\ client_html \in {HtmlOf(body), HtmlOf(Render(body))}
          /\ server_html = HtmlOf(body)

\* the two results differ
C9_Witness ==
    /\ "h13" \in Range(done)
    /\ server_html = "b1"
    /\ client_html = "rb1"

\* C10: when a run is over, however it ended, no browser, context or page
\* handle it acquired is still open.
C10_Released ==
    pc = "end" => \A x \in DOMAIN h : h[x] # "open"

\* a run that failed after the launch, before browser.close()
C10_Witness ==
    /\ pc = "end"
    /\ err # NoErr
    /\ err.at \in {"c9", "c15", "c20", "c21", "h8", "k9"}
    /\ h.browser = "closed"
    /\ h.page = "closed"

\* C8: idempotence of save.  When a save writes the CookieSet that the save
\* before it wrote, the bytes of the file are the same after it as before it.
C8_SaveIdempotent == resaved => ~rewrote

C8_Witness ==
    /\ resaved
    /\ nSaves >= 2
    /\ lastSaved = PyList(<<SidOther, Tok>>)

====
